---- MODULE Spec2Model ----
(***************************************************************************)
(* Model of src/document360_api.py: Document360Model (the resource         *)
(* client), Document360View (console output), Document360Presenter (the    *)
(* coordinator of one CRUD step) and main (the List -> Create -> Update -> *)
(* Delete pipeline).                                                       *)
(*                                                                         *)
(* Two specifications share the definitions of the classes:                *)
(*   Spec      - one run of main();                                        *)
(*   SpecCalls - arbitrary calls of the four Presenter methods on one      *)
(*               Document360Model, with arbitrary id arguments.            *)
(* The remote server is the environment: every HTTP call draws its outcome *)
(* (a transport fault, or a response with a status and a body text) from   *)
(* Outcomes.                                                               *)
(***************************************************************************)
EXTENDS Integers, Sequences, FiniteSets, TLC

VARIABLES
    json_error_is_request_exception, \* the installed requests: is its JSONDecodeError a RequestException
    folder_id,      \* Document360Model.folder_id
    sent,           \* number of HTTP requests issued so far
    last_request,   \* the last HTTP request issued, None before the first
    console,        \* the lines printed by Document360View (and the interpreter)
    last,           \* the last Presenter call: operation, arguments, outcome, result
    last_created,   \* history: what the last Create answered 201 with an "id" key returned
    pc,             \* position of main()
    folders,        \* main's local `folders`
    created_id,     \* main's local `folder_id`
    step_ok,        \* main: what update_folder / delete_folder returned
    steps,          \* history: the Presenter calls main made, in order
    exit_code       \* the process's exit code, None while it runs

vars == << json_error_is_request_exception, folder_id, sent, last_request, console,
           last, last_created, pc, folders, created_id, step_ok, steps, exit_code >>

(***************************************************************************)
(* Bounds.                                                                 *)
(***************************************************************************)
\* SpecCalls stops calling once this many HTTP requests were issued.
MaxSent == 2

(***************************************************************************)
(* Python values.  Every value is a record [t, s, items, o]: t is the      *)
(* type, s the text of a str or number, items the elements of a list, o    *)
(* the dict (a function from its keys).  Optional[...] None is PyNone; an  *)
(* optional Response is None (<<>>) or Some(r) (<<r>>).                    *)
(***************************************************************************)
None == << >>
Some(x) == << x >>

PyVal(t, s, items, o) == [t |-> t, s |-> s, items |-> items, o |-> o]
PyNone == PyVal("null", "", << >>, << >>)
PyStr(s) == PyVal("str", s, << >>, << >>)
PyNum(s) == PyVal("num", s, << >>, << >>)
PyList(items) == PyVal("arr", "", items, << >>)
PyDict(o) == PyVal("obj", "", << >>, o)

\* Python truthiness (`if x:`, `not x`) of a value.
Truthy(v) ==
    CASE v.t = "null" -> FALSE
      [] v.t = "str"  -> v.s # ""
      [] v.t = "num"  -> v.s # "0"
      [] v.t = "arr"  -> v.items # << >>
      [] v.t = "obj"  -> DOMAIN v.o # {}

\* str(v), as an f-string formats a value.
Format(v) ==
    CASE v.t = "null" -> "None"
      [] v.t = "str"  -> v.s
      [] v.t = "num"  -> v.s
      [] OTHER        -> "<repr>"

(***************************************************************************)
(* The HTTP outcomes the environment can produce.                          *)
(***************************************************************************)
StatusCodes == {200, 201, 204, 404, 500}

\* Response body texts: empty, not JSON, JSON scalars, arrays and objects.
Texts == { "", "internal error", "null", "5", "\"id\"", "[]", "[\"a\"]", "{}",
           "{\"id\":\"f1\"}", "{\"id\":\"f2\"}", "{\"id\":null}", "{\"id\":\"\"}",
           "{\"error\":\"Folder not found\"}", "{\"not\":\"a list\"}" }

Response(status, text) == [status_code |-> status, text |-> text]
Responses == { Response(st, tx) : st \in StatusCodes, tx \in Texts }

\* fault = TRUE: requests raised a RequestException (no response obtained).
TransportFault == [fault |-> TRUE, response |-> Response(0, "")]
Received(r) == [fault |-> FALSE, response |-> r]
Outcomes == {TransportFault} \cup { Received(r) : r \in Responses }

\* response.json(): the decoded body, or ok = FALSE where the text is not JSON
\* (requests raises its JSONDecodeError).
JsonLoads(text) ==
    CASE text = "null"          -> [ok |-> TRUE, v |-> PyNone]
      [] text = "5"             -> [ok |-> TRUE, v |-> PyNum("5")]
      [] text = "\"id\""        -> [ok |-> TRUE, v |-> PyStr("id")]
      [] text = "[]"            -> [ok |-> TRUE, v |-> PyList(<< >>)]
      [] text = "[\"a\"]"       -> [ok |-> TRUE, v |-> PyList(<< PyStr("a") >>)]
      [] text = "{}"            -> [ok |-> TRUE, v |-> PyDict(<< >>)]
      [] text = "{\"id\":\"f1\"}" -> [ok |-> TRUE, v |-> PyDict("id" :> PyStr("f1"))]
      [] text = "{\"id\":\"f2\"}" -> [ok |-> TRUE, v |-> PyDict("id" :> PyStr("f2"))]
      [] text = "{\"id\":null}" -> [ok |-> TRUE, v |-> PyDict("id" :> PyNone)]
      [] text = "{\"id\":\"\"}" -> [ok |-> TRUE, v |-> PyDict("id" :> PyStr(""))]
      [] text = "{\"error\":\"Folder not found\"}"
                                -> [ok |-> TRUE, v |-> PyDict("error" :> PyStr("Folder not found"))]
      [] text = "{\"not\":\"a list\"}"
                                -> [ok |-> TRUE, v |-> PyDict("not" :> PyStr("a list"))]
      [] OTHER                  -> [ok |-> FALSE, v |-> PyNone]

\* bool(response): requests.Response.__bool__ is Response.ok, false for 4xx and 5xx.
ResponseTruthy(resp) == resp # None /\ resp[1].status_code < 400

(***************************************************************************)
(* Document360Model                                                        *)
(***************************************************************************)
base_url == "https://apihub.document360.io/v2/Drive/Folders"
api_token == "<api_token>"
headers == [api_token |-> api_token, content_type |-> "application/json"]

Request(method, url, body) ==
    [method |-> method, url |-> url, headers |-> headers, body |-> body]

\* f"{self.base_url}/{folder_id}"
FolderUrl(id) == << base_url, Format(id) >>

\* What a Document360Model method did: exc is the exception that left it ("" when
\* it returned), (val, resp) the tuple it returned, folder_id the cached id after
\* it, reqs the HTTP requests it issued.
ModelResult(exc, val, resp, fid, reqs) ==
    [exc |-> exc, val |-> val, resp |-> resp, folder_id |-> fid, reqs |-> reqs]

\* response.json() raised inside the try block of get_all_folders / create_folder:
\* `except requests.RequestException` catches it only where the installed
\* requests derives its JSONDecodeError from RequestException.
JsonErrorInTry(caught, val, fid, reqs) ==
    IF caught THEN ModelResult("", val, None, fid, reqs)
              ELSE ModelResult("JSONDecodeError", val, None, fid, reqs)

ModelGetAllFolders(caught, fid, out) ==
    LET reqs == << Request("GET", << base_url >>, None) >>
        r == out.response
        j == JsonLoads(r.text)
    IN  IF out.fault THEN ModelResult("", PyNone, None, fid, reqs)
        ELSE IF r.status_code = 200
             THEN IF ~j.ok THEN JsonErrorInTry(caught, PyNone, fid, reqs)
                  ELSE IF j.v.t = "arr"
                       THEN ModelResult("", j.v, Some(r), fid, reqs)
                       ELSE ModelResult("", PyNone, Some(r), fid, reqs)
             ELSE ModelResult("", PyNone, Some(r), fid, reqs)

\* The text of a str contains "id" (over the strings of Texts).
StrContainsId(s) == s \in {"id"}

\* `'id' in response_data`: "yes", "no", or "TypeError" for a value that is not
\* a container.
ContainsId(v) ==
    CASE v.t = "obj" -> IF "id" \in DOMAIN v.o THEN "yes" ELSE "no"
      [] v.t = "arr" -> IF \E i \in DOMAIN v.items : v.items[i] = PyStr("id")
                        THEN "yes" ELSE "no"
      [] v.t = "str" -> IF StrContainsId(v.s) THEN "yes" ELSE "no"
      [] OTHER       -> "TypeError"

ModelCreateFolder(caught, fid, folder_name, out) ==
    LET reqs == << Request("POST", << base_url >>, Some(folder_name)) >>
        r == out.response
        j == JsonLoads(r.text)
        has == ContainsId(j.v)
    IN  IF out.fault THEN ModelResult("", PyNone, None, fid, reqs)
        ELSE IF r.status_code = 201
             THEN IF ~j.ok THEN JsonErrorInTry(caught, PyNone, fid, reqs)
                  ELSE IF has = "TypeError"
                       THEN ModelResult("TypeError", PyNone, None, fid, reqs)
                  ELSE IF has = "yes"
                       THEN IF j.v.t = "obj"
                            THEN ModelResult("", j.v.o["id"], Some(r), j.v.o["id"], reqs)
                            \* response_data['id'] on a list or a str
                            ELSE ModelResult("TypeError", PyNone, None, fid, reqs)
                       ELSE ModelResult("", PyNone, Some(r), fid, reqs)
             ELSE ModelResult("", PyNone, Some(r), fid, reqs)

\* Mutant of update_folder: the `if not folder_id` check is missing.
ModelUpdateFolder_NoIdCheck(fid, id, new_name, out) ==
    LET reqs == << Request("PUT", FolderUrl(id), Some(new_name)) >>
        r == out.response
    IN  IF out.fault THEN ModelResult("", FALSE, None, fid, reqs)
        ELSE ModelResult("", r.status_code = 200, Some(r), fid, reqs)

ModelUpdateFolder(fid, id, new_name, out) ==
    LET reqs == << Request("PUT", FolderUrl(id), Some(new_name)) >>
        r == out.response
    IN  IF ~Truthy(id) THEN ModelResult("", FALSE, None, fid, << >>)
        ELSE IF out.fault THEN ModelResult("", FALSE, None, fid, reqs)
        ELSE ModelResult("", r.status_code = 200, Some(r), fid, reqs)

\* Mutant of delete_folder: a successful delete also clears the cached folder_id.
ModelDeleteFolder_ClearsCache(fid, id, out) ==
    LET reqs == << Request("DELETE", FolderUrl(id), None) >>
        r == out.response
    IN  IF ~Truthy(id) THEN ModelResult("", FALSE, None, fid, << >>)
        ELSE IF out.fault THEN ModelResult("", FALSE, None, fid, reqs)
        ELSE ModelResult("", r.status_code = 204, Some(r),
                         IF r.status_code = 204 THEN PyNone ELSE fid, reqs)

ModelDeleteFolder(fid, id, out) ==
    LET reqs == << Request("DELETE", FolderUrl(id), None) >>
        r == out.response
    IN  IF ~Truthy(id) THEN ModelResult("", FALSE, None, fid, << >>)
        ELSE IF out.fault THEN ModelResult("", FALSE, None, fid, reqs)
        ELSE ModelResult("", r.status_code = 204, Some(r), fid, reqs)

(***************************************************************************)
(* Document360View: each method is the sequence of lines it prints.        *)
(***************************************************************************)
\* json.dumps(headers, indent=2): every key with its value.
DumpHeaders(h) == << << "api_token", h.api_token >>, << "Content-Type", h.content_type >> >>

log_request(method, url, hdrs, body) ==
    << << "Request", method >>, << "URL", url >>, << "Headers", DumpHeaders(hdrs) >> >>
    \o (IF body # None THEN << << "Body", body[1] >> >> ELSE << >>)

log_response(resp) ==
    << << "Response" >> >>
    \o (IF resp = None
        THEN << << "No response received (request failed)" >> >>
        ELSE << << "Status Code", resp[1].status_code >>,
                IF JsonLoads(resp[1].text).ok
                THEN << "Body", JsonLoads(resp[1].text).v >>
                ELSE << "Body", resp[1].text >> >>)
    \o << << "================" >> >>

show_success(message) == << << "Success", message >> >>

show_error(message, status_code, expected_status, error_detail) ==
    << << "Error", message >> >>
    \o (IF status_code # None /\ expected_status # None
        THEN << << "Expected status", expected_status[1], status_code[1] >> >>
        ELSE << >>)
    \o (IF Truthy(error_detail) THEN << << "Error Details", error_detail >> >> ELSE << >>)

(***************************************************************************)
(* Document360Presenter                                                    *)
(***************************************************************************)
\* What a Presenter method did: exc the exception that left it ("" when it
\* returned), ret what it returned, report the arguments of its show_error call
\* (None when it made none), lines what it printed, m the Model method's result.
PresenterResult(exc, ret, report, lines, m) ==
    [exc |-> exc, ret |-> ret, report |-> report, lines |-> lines, m |-> m]

Report(message, status_code, expected_status, error_detail) ==
    [message |-> message, status_code |-> status_code,
     expected_status |-> expected_status, error_detail |-> error_detail]

\* Mutant of the error_detail computation: error_detail starts as the default
\* text instead of None.
ErrorDetail_DefaultText(resp) ==
    LET j == JsonLoads(resp[1].text)
    IN  IF ~ResponseTruthy(resp)
        THEN [exc |-> "", detail |-> PyStr("No error details provided")]
        ELSE IF ~j.ok THEN [exc |-> "", detail |-> PyStr(resp[1].text)]
        ELSE IF j.v.t = "obj"
             THEN [exc |-> "",
                   detail |-> IF "error" \in DOMAIN j.v.o THEN j.v.o["error"]
                              ELSE PyStr("No error details provided")]
             ELSE [exc |-> "AttributeError", detail |-> PyNone]

\* error_detail = None; if response: try response.json().get('error', ...)
\* except ValueError: response.text
ErrorDetail(resp) ==
    LET j == JsonLoads(resp[1].text)
    IN  IF ~ResponseTruthy(resp) THEN [exc |-> "", detail |-> PyNone]
        ELSE IF ~j.ok THEN [exc |-> "", detail |-> PyStr(resp[1].text)]
        ELSE IF j.v.t = "obj"
             THEN [exc |-> "",
                   detail |-> IF "error" \in DOMAIN j.v.o THEN j.v.o["error"]
                              ELSE PyStr("No error details provided")]
             \* .get on a list, a str, a number or None
             ELSE [exc |-> "AttributeError", detail |-> PyNone]

\* response.status_code if response else None
ObservedStatus(resp) == IF ResponseTruthy(resp) THEN Some(resp[1].status_code) ELSE None

\* The failure branch the four methods share: build error_detail, show_error,
\* return failret.
FailureBranch(message, expected, failret, lines, m) ==
    LET d == ErrorDetail(m.resp)
        rep == Report(message, ObservedStatus(m.resp), Some(expected), d.detail)
    IN  IF d.exc # "" THEN PresenterResult(d.exc, failret, None, lines, m)
        ELSE PresenterResult("", failret, Some(rep),
                 lines \o show_error(rep.message, rep.status_code,
                                     rep.expected_status, rep.error_detail), m)

ExpectedList == 200
ExpectedCreate == 201
ExpectedUpdate == 200
ExpectedDelete == 204

PresenterGetAllFolders(caught, fid, out) ==
    LET m == ModelGetAllFolders(caught, fid, out)
        pre == show_success("Task 1: Fetching all folders")
               \o log_request("GET", << base_url >>, headers, None)
        lines == pre \o log_response(m.resp)
    IN  IF m.exc # "" THEN PresenterResult(m.exc, PyNone, None, pre, m)
        ELSE IF m.val = PyNone
             THEN FailureBranch("Failed to fetch folders", ExpectedList, PyNone, lines, m)
             ELSE PresenterResult("", m.val, None, lines, m)

PresenterCreateFolder(caught, fid, folder_name, out) ==
    LET m == ModelCreateFolder(caught, fid, folder_name, out)
        pre == show_success("Task 2: Creating a new folder")
               \o log_request("POST", << base_url >>, headers, Some(folder_name))
        lines == pre \o log_response(m.resp)
    IN  IF m.exc # "" THEN PresenterResult(m.exc, PyNone, None, pre, m)
        ELSE IF m.val = PyNone
             THEN FailureBranch("Failed to create folder", ExpectedCreate, PyNone, lines, m)
             ELSE PresenterResult("", m.val, None,
                      lines \o show_success(<< "Folder created with ID", folder_name,
                                               Format(m.val) >>), m)

PresenterUpdateFolder(fid, id, new_name, out) ==
    LET m == ModelUpdateFolder(fid, id, new_name, out)
        pre == show_success("Task 3: Updating folder name")
               \o log_request("PUT", FolderUrl(id), headers, Some(new_name))
        lines == pre \o log_response(m.resp)
    IN  IF ~m.val
        THEN FailureBranch("Failed to update folder", ExpectedUpdate, FALSE, lines, m)
        ELSE PresenterResult("", TRUE, None,
                 lines \o show_success(<< "Folder renamed", Format(id), new_name >>), m)

PresenterDeleteFolder(fid, id, out) ==
    LET m == ModelDeleteFolder(fid, id, out)
        pre == show_success("Task 4: Deleting folder")
               \o log_request("DELETE", FolderUrl(id), headers, None)
        lines == pre \o log_response(m.resp)
    IN  IF ~m.val
        THEN FailureBranch("Failed to delete folder", ExpectedDelete, FALSE, lines, m)
        ELSE PresenterResult("", TRUE, None,
                 lines \o show_success(<< "Folder deleted", Format(id) >>), m)

(***************************************************************************)
(* State shared by both specifications.                                    *)
(***************************************************************************)
\* The record kept of one Presenter call: before is folder_id and sent_before is
\* sent as the call began.
Call(op, id, out, before, sent_before, p) ==
    [op |-> op, id |-> id, out |-> out, before |-> before, sent_before |-> sent_before,
     exc |-> p.exc,
     ret |-> p.ret, report |-> p.report, val |-> p.m.val, resp |-> p.m.resp,
     reqs |-> p.m.reqs]

NoCall ==
    [op |-> "none", id |-> PyNone, out |-> TransportFault, before |-> PyNone,
     sent_before |-> 0, exc |-> "", ret |-> PyNone, report |-> None, val |-> PyNone, resp |-> None,
     reqs |-> << >>]

\* The environment's view of a Create: the server answered 201 with a JSON object
\* holding the key "id".
AnsweredWithId(out) ==
    /\ ~out.fault
    /\ out.response.status_code = 201
    /\ JsonLoads(out.response.text).ok
    /\ JsonLoads(out.response.text).v.t = "obj"
    /\ "id" \in DOMAIN JsonLoads(out.response.text).v.o

AnsweredId(out) == JsonLoads(out.response.text).v.o["id"]

\* How a Presenter call ended: it raised, it returned after show_error (Failure),
\* or it returned its value (Success).
Outcome(p) ==
    IF p.exc # "" THEN "raised" ELSE IF p.report # None THEN "Failure" ELSE "Success"

\* The record main's history keeps of one step.
Step(op, out, p) ==
    [op |-> op, out |-> out, result |-> Outcome(p), reqs |-> p.m.reqs, report |-> p.report]

\* The effect of one Presenter call on the model, the network and the console.
Effect(op, id, out, p) ==
    /\ folder_id' = p.m.folder_id
    /\ sent' = sent + Len(p.m.reqs)
    /\ last_request' = IF p.m.reqs = << >> THEN last_request ELSE Some(p.m.reqs[1])
    /\ last' = Call(op, id, out, folder_id, sent, p)
    /\ last_created' = IF op = "create" /\ AnsweredWithId(out)
                       THEN Some(AnsweredId(out)) ELSE last_created

(***************************************************************************)
(* main(): one step per statement.                                         *)
(***************************************************************************)
\* f"TestFolder_{str(uuid4())[:8]}" and f"UpdatedFolder_{str(uuid4())[:8]}"
folder_name == "TestFolder_1a2b3c4d"
new_folder_name == "UpdatedFolder_5e6f7a8b"

InitCommon ==
    /\ json_error_is_request_exception \in BOOLEAN
    /\ folder_id = PyNone
    /\ sent = 0
    /\ last_request = None
    /\ console = << >>
    /\ last = NoCall
    /\ last_created = None
    /\ folders = PyNone
    /\ created_id = PyNone
    /\ step_ok = FALSE
    /\ steps = << >>
    /\ exit_code = None

Init == InitCommon /\ pc = "list"

\* folders = presenter.get_all_folders()
MainList ==
    /\ pc = "list"
    /\ \E out \in Outcomes :
         LET p == PresenterGetAllFolders(json_error_is_request_exception, folder_id, out)
         IN  /\ Effect("list", PyNone, out, p)
             /\ console' = console \o p.lines
             /\ steps' = Append(steps, Step("list", out, p))
             /\ folders' = IF p.exc = "" THEN p.ret ELSE folders
             /\ pc' = IF p.exc = "" THEN "check_list" ELSE "raised"
    /\ UNCHANGED << json_error_is_request_exception, created_id, step_ok, exit_code >>

\* Mutant of main's check after List: the error is shown but sys.exit(1) is
\* missing, so main goes on to Create.
MainCheckList_NoExit ==
    /\ pc = "check_list"
    /\ console' = IF ~Truthy(folders)
                  THEN console \o show_error("Failed to fetch folders. Exiting.",
                                              None, None, PyNone)
                  ELSE console
    /\ pc' = "create"
    /\ UNCHANGED << json_error_is_request_exception, folder_id, sent, last_request, last,
                    last_created, folders, created_id, step_ok, steps, exit_code >>

\* if not folders: show_error(...); sys.exit(1)
MainCheckList ==
    /\ pc = "check_list"
    /\ IF ~Truthy(folders)
       THEN /\ console' = console \o show_error("Failed to fetch folders. Exiting.",
                                                None, None, PyNone)
            /\ pc' = "sys_exit"
       ELSE /\ console' = console
            /\ pc' = "create"
    /\ UNCHANGED << json_error_is_request_exception, folder_id, sent, last_request, last,
                    last_created, folders, created_id, step_ok, steps, exit_code >>

\* folder_id = presenter.create_folder(folder_name)
MainCreate ==
    /\ pc = "create"
    /\ \E out \in Outcomes :
         LET p == PresenterCreateFolder(json_error_is_request_exception, folder_id,
                                        folder_name, out)
         IN  /\ Effect("create", PyNone, out, p)
             /\ console' = console \o p.lines
             /\ steps' = Append(steps, Step("create", out, p))
             /\ created_id' = IF p.exc = "" THEN p.ret ELSE created_id
             /\ pc' = IF p.exc = "" THEN "check_create" ELSE "raised"
    /\ UNCHANGED << json_error_is_request_exception, folders, step_ok, exit_code >>

\* if not folder_id: show_error(...); sys.exit(1)
MainCheckCreate ==
    /\ pc = "check_create"
    /\ IF ~Truthy(created_id)
       THEN /\ console' = console \o show_error("Failed to create folder. Exiting.",
                                                None, None, PyNone)
            /\ pc' = "sys_exit"
       ELSE /\ console' = console
            /\ pc' = "update"
    /\ UNCHANGED << json_error_is_request_exception, folder_id, sent, last_request, last,
                    last_created, folders, created_id, step_ok, steps, exit_code >>

\* presenter.update_folder(folder_id, new_folder_name)
MainUpdate ==
    /\ pc = "update"
    /\ \E out \in Outcomes :
         LET p == PresenterUpdateFolder(folder_id, created_id, new_folder_name, out)
         IN  /\ Effect("update", created_id, out, p)
             /\ console' = console \o p.lines
             /\ steps' = Append(steps, Step("update", out, p))
             /\ step_ok' = IF p.exc = "" THEN p.ret ELSE step_ok
             /\ pc' = IF p.exc = "" THEN "check_update" ELSE "raised"
    /\ UNCHANGED << json_error_is_request_exception, folders, created_id, exit_code >>

\* if not presenter.update_folder(...): show_error(...); sys.exit(1)
MainCheckUpdate ==
    /\ pc = "check_update"
    /\ IF ~step_ok
       THEN /\ console' = console \o show_error("Failed to update folder. Exiting.",
                                                None, None, PyNone)
            /\ pc' = "sys_exit"
       ELSE /\ console' = console
            /\ pc' = "delete"
    /\ UNCHANGED << json_error_is_request_exception, folder_id, sent, last_request, last,
                    last_created, folders, created_id, step_ok, steps, exit_code >>

\* presenter.delete_folder(folder_id)
MainDelete ==
    /\ pc = "delete"
    /\ \E out \in Outcomes :
         LET p == PresenterDeleteFolder(folder_id, created_id, out)
         IN  /\ Effect("delete", created_id, out, p)
             /\ console' = console \o p.lines
             /\ steps' = Append(steps, Step("delete", out, p))
             /\ step_ok' = IF p.exc = "" THEN p.ret ELSE step_ok
             /\ pc' = IF p.exc = "" THEN "check_delete" ELSE "raised"
    /\ UNCHANGED << json_error_is_request_exception, folders, created_id, exit_code >>

\* if not presenter.delete_folder(...): show_error(...); sys.exit(1); else main returns
MainCheckDelete ==
    /\ pc = "check_delete"
    /\ IF ~step_ok
       THEN /\ console' = console \o show_error("Failed to delete folder. Exiting.",
                                                None, None, PyNone)
            /\ pc' = "sys_exit"
       ELSE /\ console' = console
            /\ pc' = "return"
    /\ UNCHANGED << json_error_is_request_exception, folder_id, sent, last_request, last,
                    last_created, folders, created_id, step_ok, steps, exit_code >>

\* sys.exit(1)
SysExit ==
    /\ pc = "sys_exit"
    /\ exit_code' = Some(1)
    /\ pc' = "terminated"
    /\ UNCHANGED << json_error_is_request_exception, folder_id, sent, last_request, console,
                    last, last_created, folders, created_id, step_ok, steps >>

\* main() returned: the interpreter exits with 0.
MainReturn ==
    /\ pc = "return"
    /\ exit_code' = Some(0)
    /\ pc' = "terminated"
    /\ UNCHANGED << json_error_is_request_exception, folder_id, sent, last_request, console,
                    last, last_created, folders, created_id, step_ok, steps >>

\* An exception left main(): the interpreter prints the traceback and exits with 1.
UncaughtException ==
    /\ pc = "raised"
    /\ console' = console \o << << "Traceback", last.exc >> >>
    /\ exit_code' = Some(1)
    /\ pc' = "terminated"
    /\ UNCHANGED << json_error_is_request_exception, folder_id, sent, last_request,
                    last, last_created, folders, created_id, step_ok, steps >>

Next ==
    \/ MainList \/ MainCheckList
    \/ MainCreate \/ MainCheckCreate
    \/ MainUpdate \/ MainCheckUpdate
    \/ MainDelete \/ MainCheckDelete
    \/ SysExit \/ MainReturn \/ UncaughtException

Spec == Init /\ [][Next]_vars

(***************************************************************************)
(* Arbitrary calls on one Presenter / Model.  The console holds what the   *)
(* last call printed.                                                      *)
(***************************************************************************)
\* The id arguments update_folder and delete_folder are called with.
Ids == { PyStr(""), PyStr("f1") }

InitCalls == InitCommon /\ pc = "calls"

MainFrame == UNCHANGED << json_error_is_request_exception, pc, folders, created_id,
                          step_ok, steps, exit_code >>

CallGetAllFolders ==
    /\ pc = "calls" /\ sent < MaxSent
    /\ \E out \in Outcomes :
         LET p == PresenterGetAllFolders(json_error_is_request_exception, folder_id, out)
         IN  Effect("list", PyNone, out, p) /\ console' = p.lines
    /\ MainFrame

CallCreateFolder ==
    /\ pc = "calls" /\ sent < MaxSent
    /\ \E out \in Outcomes :
         LET p == PresenterCreateFolder(json_error_is_request_exception, folder_id,
                                        folder_name, out)
         IN  Effect("create", PyNone, out, p) /\ console' = p.lines
    /\ MainFrame

CallUpdateFolder ==
    /\ pc = "calls" /\ sent < MaxSent
    /\ \E id \in Ids, out \in Outcomes :
         LET p == PresenterUpdateFolder(folder_id, id, new_folder_name, out)
         IN  Effect("update", id, out, p) /\ console' = p.lines
    /\ MainFrame

CallDeleteFolder ==
    /\ pc = "calls" /\ sent < MaxSent
    /\ \E id \in Ids, out \in Outcomes :
         LET p == PresenterDeleteFolder(folder_id, id, out)
         IN  Effect("delete", id, out, p) /\ console' = p.lines
    /\ MainFrame

NextCalls ==
    \/ CallGetAllFolders \/ CallCreateFolder \/ CallUpdateFolder \/ CallDeleteFolder

SpecCalls == InitCalls /\ [][NextCalls]_vars

(***************************************************************************)
(* Claims about one run of main() (specification Spec).                    *)
(***************************************************************************)
PipelineOrder == << "list", "create", "update", "delete" >>

\* The Error line show_error printed for a report.
ReportedOnConsole(rep) ==
    \E i \in DOMAIN console : console[i] = << "Error", rep.message >>

\* C1: the pipeline is fail-fast.  The steps main attempted follow the order
\* List, Create, Update, Delete; a step was attempted only if every earlier step
\* returned Success; every HTTP request issued belongs to an attempted step, so
\* after a step returned Failure no request of a later operation exists; the
\* failure is on the console from the moment the step returned, and the process
\* then exits with code 1, never 0.
C1_FailFast ==
    /\ Len(steps) <= Len(PipelineOrder)
    /\ \A i \in DOMAIN steps :
         /\ steps[i].op = PipelineOrder[i]
         /\ \A j \in 1..(i - 1) : steps[j].result = "Success"
         /\ \A k \in DOMAIN steps[i].reqs :
              steps[i].reqs[k].method = << "GET", "POST", "PUT", "DELETE" >>[i]
         /\ steps[i].result = "Failure" =>
              /\ i = Len(steps)
              /\ ReportedOnConsole(steps[i].report[1])
              /\ exit_code \in {None, Some(1)}
              /\ pc \in {"check_list", "check_create", "check_update", "check_delete",
                         "sys_exit", "terminated"}
              /\ pc = "terminated" => exit_code = Some(1)
    /\ sent = Len(steps) - Cardinality({ i \in DOMAIN steps : steps[i].reqs = << >> })
    /\ last_request # None =>
         \E i \in DOMAIN steps : steps[i].reqs = << last_request[1] >>

\* C1 witness: Create answered 404, the run ended with exit code 1 after two
\* requests.
C1_Witness ==
    /\ Len(steps) = 2
    /\ steps[2].result = "Failure"
    /\ steps[2].out.response.status_code = 404
    /\ sent = 2
    /\ exit_code = Some(1)

\* The answers the end-to-end scenario names: List 200 with a JSON array, Create
\* 201 with an object holding an id, Update 200, Delete 204.
GoodAnswer(st) ==
    /\ ~st.out.fault
    /\ CASE st.op = "list" ->
              /\ st.out.response.status_code = 200
              /\ JsonLoads(st.out.response.text).ok
              /\ JsonLoads(st.out.response.text).v.t = "arr"
         [] st.op = "create" -> AnsweredWithId(st.out)
         [] st.op = "update" -> st.out.response.status_code = 200
         [] st.op = "delete" -> st.out.response.status_code = 204

\* C2 (as claimed): whenever every step main attempted was answered as in the
\* end-to-end scenario, the run does not stop early: once terminated it has
\* executed all four steps and exits with code 0.
C2_GoodAnswersExitZero ==
    (pc = "terminated" /\ \A i \in DOMAIN steps : GoodAnswer(steps[i]))
        => (Len(steps) = 4 /\ exit_code = Some(0))

\* Text printed to the console that holds the complete credential.
ShowsToken(line) ==
    /\ line[1] = "Headers"
    /\ \E k \in DOMAIN line[2] : line[2][k][2] = api_token

\* C9 (as claimed): no line on the console holds the full credential token.
C9_TokenNeverLogged == \A i \in DOMAIN console : ~ShowsToken(console[i])

(***************************************************************************)
(* Claims about single calls (specification SpecCalls); `last` is the call. *)
(***************************************************************************)
\* The status each operation's contract expects.
ContractStatus(op) ==
    CASE op = "list" -> 200 [] op = "create" -> 201
      [] op = "update" -> 200 [] op = "delete" -> 204

Returned(c) == c.op # "none" /\ c.exc = ""
ReturnedFailure(c) == Returned(c) /\ c.report # None
ReturnedSuccess(c) == Returned(c) /\ c.report = None

\* A response was received and its status is not the operation's expected one.
StatusMismatch(c) ==
    /\ c.op # "none"
    /\ c.reqs # << >>
    /\ ~c.out.fault
    /\ c.out.response.status_code # ContractStatus(c.op)

\* C3 (as claimed): a call that returned after a response with an unexpected
\* status reported a failure whose observedStatus is the received status and
\* whose detail is the body's "error" field when the body is JSON with that
\* field, and the raw text when the body is not JSON.
C3_MismatchReported ==
    (StatusMismatch(last) /\ Returned(last)) =>
        LET r == last.out.response
            j == JsonLoads(r.text)
        IN  /\ last.report # None
            /\ last.report[1].status_code = Some(r.status_code)
            /\ (j.ok /\ j.v.t = "obj" /\ "error" \in DOMAIN j.v.o)
                   => last.report[1].error_detail = j.v.o["error"]
            /\ ~j.ok => last.report[1].error_detail = PyStr(r.text)

\* C4 (as claimed): whatever the HTTP call produced, the Presenter method (and
\* the Model method under it) returned: no exception left it.
C4_NoExceptionEscapes == last.op # "none" => last.exc = ""

\* C5: a call whose HTTP request met a transport fault returned Failure, and the
\* failure it reported has no observed status, no detail, and the operation's
\* contractual expected status.
C5_TransportFailure ==
    (last.op # "none" /\ last.reqs # << >> /\ last.out.fault) =>
        /\ ReturnedFailure(last)
        /\ last.report[1].status_code = None
        /\ last.report[1].error_detail = PyNone
        /\ last.report[1].expected_status = Some(ContractStatus(last.op))
        /\ IF last.op \in {"list", "create"} THEN last.ret = PyNone ELSE last.ret = FALSE

\* C5 witness: a Delete whose request met a transport fault.
C5_Witness ==
    /\ last.op = "delete"
    /\ last.reqs # << >>
    /\ last.out.fault
    /\ last.report # None

\* C6: Update and Delete called with an empty id return Failure without issuing
\* an HTTP request: the call sent nothing and the count of requests is what it
\* was before the call.
C6_EmptyIdNoRequest ==
    (last.op \in {"update", "delete"} /\ last.id = PyStr("")) =>
        /\ ReturnedFailure(last)
        /\ last.ret = FALSE
        /\ last.reqs = << >>
        /\ sent = last.sent_before

\* C6 witness: an Update with the empty id, after a request was already sent.
C6_Witness ==
    /\ last.op = "update"
    /\ last.id = PyStr("")
    /\ sent = 1

\* Details that say the response was malformed.
MalformedDetails ==
    { PyStr("malformed response"), PyStr("unexpected response shape"),
      PyStr("missing id") }

\* C7 (as claimed): Create returns Success(v) exactly when the server answered
\* 201 with a JSON object holding "id" = v; a 201 answer with an object without
\* "id" returns Failure with a detail that says the response was malformed.
C7_CreateSuccessIffId ==
    last.op = "create" =>
        LET r == last.out.response
            j == JsonLoads(r.text)
        IN  /\ ReturnedSuccess(last) <=> AnsweredWithId(last.out)
            /\ AnsweredWithId(last.out) => last.ret = AnsweredId(last.out)
            /\ (~last.out.fault /\ r.status_code = 201 /\ j.ok /\ j.v.t = "obj"
                    /\ "id" \notin DOMAIN j.v.o)
                  => /\ ReturnedFailure(last)
                     /\ last.report[1].error_detail \in MalformedDetails

\* C8 (as claimed): whenever the answer is 200 with a JSON body that is not an
\* array, List does not return Success, and the failure it returns has the detail
\* "unexpected response shape"; List returns Success only for 200 with an array.
C8_ListShape ==
    last.op = "list" =>
        LET r == last.out.response
            j == JsonLoads(r.text)
        IN  /\ (~last.out.fault /\ r.status_code = 200 /\ j.ok /\ j.v.t # "arr")
                  => /\ ~ReturnedSuccess(last)
                     /\ Returned(last) =>
                          /\ last.report # None
                          /\ last.report[1].error_detail = PyStr("unexpected response shape")
            /\ ReturnedSuccess(last)
                  => (~last.out.fault /\ r.status_code = 200 /\ j.ok /\ j.v.t = "arr")

\* C10: the cached folder_id is None while no Create was answered 201 with an
\* "id", and otherwise the id the most recent such Create returned; every other
\* call (List, Update, Delete, a Create that failed) leaves it as it was; and
\* the requests of Update and Delete address the id passed as argument.
C10_CachedId ==
    /\ folder_id = IF last_created = None THEN PyNone ELSE last_created[1]
    /\ (last.op # "none" /\ ~(last.op = "create" /\ AnsweredWithId(last.out)))
           => folder_id = last.before
    /\ (last.op = "create" /\ AnsweredWithId(last.out))
           => (folder_id = AnsweredId(last.out) /\ last.val = AnsweredId(last.out))
    /\ last.op \in {"update", "delete"} =>
           \A k \in DOMAIN last.reqs : last.reqs[k].url = << base_url, Format(last.id) >>

\* C10 witness: a Create that failed on a received response after an earlier
\* Create had cached "f1"; the cache still holds "f1".
C10_Witness ==
    /\ last.op = "create"
    /\ ~last.out.fault
    /\ ~AnsweredWithId(last.out)
    /\ last_created = Some(PyStr("f1"))
    /\ folder_id = PyStr("f1")

====
